---- MODULE Spec2Model ----
(***************************************************************************)
(* Model of the flow-matching engine of CFGen, class FM of                 *)
(* src/celldreamer/models/fm/fm.py: the per-batch step with its            *)
(* pretraining / joint phases, the time sampler, the probability path and  *)
(* the decode bridge.                                                      *)
(*                                                                         *)
(* Numbers.  Tensor entries are exact rationals <<n, d>> in lowest terms,  *)
(* d > 0, or integers where the code only adds and subtracts integers of   *)
(* the model's data.  Floating-point rounding is not modelled.  exp and    *)
(* log are taken to base 2 so that they stay exact on the model's data.    *)
(* Non-finite values are the records NaN and NegInf.                       *)
(***************************************************************************)
EXTENDS Integers, Sequences, FiniteSets, TLC

VARIABLES hparams, init_error, theta, current_epoch, requires_grad,
          optimizer, logged, pc, ret

vars == <<hparams, init_error, theta, current_epoch, requires_grad,
          optimizer, logged, pc, ret>>

(***************************************************************************)
(* Bounds of the model.                                                    *)
(***************************************************************************)
MaxB == 2
MaxEpoch == 2
MaxPretrainEpochs == 1
NSeeds == 2
MaxTimesB == 6
T0Den == 6
TGrid == 2
MaxSizeFactor == 3
MaxRepetitions == 2

(***************************************************************************)
(* Program constants.                                                      *)
(***************************************************************************)
\* sigma: float = 0.1, as SigmaNum / SigmaDen
SigmaNum == 1
SigmaDen == 10
\* learning_rate: float = 0.001 and weight_decay: float = 0.0001, in 1e-4
LearningRate == 10
WeightDecay == 1
\* torch.optim.Adam(params, lr=0.001) of the learnt encoders, in units of 1e-4;
\* no weight_decay is passed there, so Adam keeps its default 0
AdamLr == 10
AdamWeightDecay == 0

(***************************************************************************)
(* Exact arithmetic.                                                       *)
(***************************************************************************)
Abs(x) == IF x < 0 THEN -x ELSE x

RECURSIVE GCD(_, _)
GCD(a, b) == IF b = 0 THEN a ELSE GCD(b, a % b)

Rat(n, d) ==
  LET s == IF d < 0 THEN -1 ELSE 1
      g == GCD(Abs(n), Abs(d))
  IN  <<(s * n) \div g, (s * d) \div g>>

RInt(i) == <<i, 1>>
RAdd(p, q) == Rat(p[1] * q[2] + q[1] * p[2], p[2] * q[2])
RSub(p, q) == Rat(p[1] * q[2] - q[1] * p[2], p[2] * q[2])
RMul(p, q) == Rat(p[1] * q[1], p[2] * q[2])
RDiv(p, q) == Rat(p[1] * q[2], p[2] * q[1])
RLt(p, q) == p[1] * q[2] < q[1] * p[2]
RLe(p, q) == p[1] * q[2] <= q[1] * p[2]
RCeil(p) == -((-p[1]) \div p[2])

RECURSIVE RSum(_)
RSum(s) == IF Len(s) = 0 THEN RInt(0) ELSE RAdd(Head(s), RSum(Tail(s)))

RECURSIVE ISum(_)
ISum(s) == IF Len(s) = 0 THEN 0 ELSE Head(s) + ISum(Tail(s))

RECURSIVE Pow2(_)
Pow2(n) == IF n <= 0 THEN 1 ELSE 2 * Pow2(n - 1)

Min(S) == CHOOSE m \in S : \A o \in S : m <= o

NaN == [tag |-> "nan"]
NegInf == [tag |-> "-inf"]
Fin(v) == [tag |-> "fin", v |-> v]
IsFinite(a) == a.tag = "fin"

RECURSIVE FloorLog2(_)
FloorLog2(n) == IF n <= 1 THEN 0 ELSE 1 + FloorLog2(n \div 2)

\* torch.log of a size factor: nan below zero, -inf at zero
Log(s) == IF s < 0 THEN NaN ELSE IF s = 0 THEN NegInf ELSE Fin(FloorLog2(s))

Rows(x) == 1..Len(x)
Cols(x) == IF Len(x) = 0 THEN {} ELSE 1..Len(x[1])

\* a vector and a tensor (a sequence of rows) with every entry evaluated
Vec(v) == SubSeq(v, 1, Len(v))
Tensor(x) == Vec([b \in DOMAIN x |-> Vec(x[b])])

(***************************************************************************)
(* Random draws: a generator is a pure function of its seed.               *)
(***************************************************************************)
Seeds == 1..NSeeds

\* torch.randn_like(x): one entry per entry of x
Randn(seed, b, g) == ((3 * seed + 2 * b + g) % 5) - 2

sample_noise_like(x, seed) ==
  Tensor([b \in Rows(x) |-> [g \in Cols(x) |-> Randn(seed, b, g)]])

\* torch.rand(n): n values of [0, 1)
Rand(seed, n) == Vec([i \in 1..n |-> Rat((2 * seed + 3 * i) % 5, 5)])

(***************************************************************************)
(* Collaborators handed to the constructor or imported from the package.   *)
(***************************************************************************)
EncoderTypes == {"fixed", "learnt_encoder", "learnt_autoencoder"}
Learnt == {"learnt_encoder", "learnt_autoencoder"}

\* categories of the conditioning covariate, feature_embeddings[cov].n_cat
Categories == {0, 1}
n_cat == Cardinality(Categories)

\* feature_embeddings[cov](y): one embedding row per category index
feature_embedding(y) == Vec([c \in 1..n_cat |-> IF c = y + 1 THEN 1 ELSE 0])

\* scaler.scale(x, reverse): forward before the flow, inverse before decoding
scale(x, reverse) ==
  Vec([g \in 1..Len(x) |-> IF reverse THEN x[g] + 1 ELSE x[g] - 1])

MatVec(W, v) ==
  Vec([o \in 1..Len(W) |-> ISum([g \in 1..Len(v) |-> W[o][g] * v[g]])])

\* MLP(**x0_from_x_kwargs): in_dim -> in_dim for learnt_encoder,
\* in_dim -> latent dimension for learnt_autoencoder
x0_from_x(hp, v) ==
  IF hp.encoder_type = "learnt_autoencoder"
  THEN MatVec(<<<<1, -1>>>>, v)
  ELSE MatVec(<<<<1, 1>>, <<0, 1>>>>, v)

\* the decoder of learnt_autoencoder, dims reversed: latent -> in_dim
x_from_x0(v) == MatVec(<<<<1>>, <<-1>>>>, v)

\* F.softmax(z, dim): over the genes of a cell (dim = 1) or over the cells
\* of a gene (dim = 0)
softmax(z, dim) ==
  Tensor([b \in Rows(z) |-> [g \in Cols(z) |->
     IF dim = 1
     THEN LET m == Min({z[b][k] : k \in Cols(z)})
          IN  Rat(Pow2(z[b][g] - m),
                  ISum([k \in Cols(z) |-> Pow2(z[b][k] - m)]))
     ELSE LET m == Min({z[c][g] : c \in Rows(z)})
          IN  Rat(Pow2(z[b][g] - m),
                  ISum([c \in Rows(z) |-> Pow2(z[c][g] - m)]))]])

\* CellDecoder(encoder_type)(x, size_factor)
cell_decoder(x, size_factor) ==
  LET p == softmax(x, 1)
  IN  Tensor([b \in Rows(x) |-> [g \in Cols(x) |->
         RMul(p[b][g], RInt(size_factor[b]))]])

\* OTPlanSampler.sample_plan(x0, x1): the second batch reordered by the
\* index vector j of the plan
sample_plan(x0, x1, j) ==
  [x0 |-> x0, x1 |-> Vec([b \in Rows(x1) |-> x1[j[b]]])]

\* the plans of two batches of B points: the pairings of their rows
Plans(B) == { j \in [1..B -> 1..B] : \A a, b \in 1..B : a # b => j[a] # j[b] }

\* pad_t_like_x(t, x): t broadcast over the trailing dimensions of x
pad_t_like_x(t, x) == Tensor([b \in Rows(x) |-> [g \in Cols(x) |-> t[b]]])

(***************************************************************************)
(* FM: the probability path.                                               *)
(***************************************************************************)
Sigma == Rat(SigmaNum, SigmaDen)

compute_mu_t_swapped(x0, x1, t) ==
  LET tp == pad_t_like_x(t, x0)
  IN  Tensor([b \in Rows(x0) |-> [g \in Cols(x0) |->
         RAdd(RMul(tp[b][g], RInt(x0[b][g])),
              RMul(RSub(RInt(1), tp[b][g]), RInt(x1[b][g])))]])

compute_mu_t(x0, x1, t) ==
  LET tp == pad_t_like_x(t, x0)
  IN  Tensor([b \in Rows(x0) |-> [g \in Cols(x0) |->
         RAdd(RMul(tp[b][g], RInt(x1[b][g])),
              RMul(RSub(RInt(1), tp[b][g]), RInt(x0[b][g])))]])

compute_sigma_t(t) == Sigma

sample_xt(x0, x1, t, epsilon) ==
  LET mu_t == compute_mu_t(x0, x1, t)
      sigma_t == compute_sigma_t(t)
  IN  Tensor([b \in Rows(x0) |-> [g \in Cols(x0) |->
         RAdd(mu_t[b][g], RMul(sigma_t, RInt(epsilon[b][g])))]])

compute_conditional_flow(x0, x1, t, xt) ==
  Tensor([b \in Rows(x0) |-> [g \in Cols(x0) |-> x1[b][g] - x0[b][g]]])

\* a time argument: given, or None
GivenT(t) == [given |-> TRUE, v |-> t]
NoneT == [given |-> FALSE, v |-> <<>>]

t_length_checked_against_dim(t, x0) == Len(t) = Cardinality(Cols(x0))

\* assert len(t) == x0.shape[0]
t_length_ok(t, x0) == Len(t) = Len(x0)

sample_location_and_conditional_flow_ut_uncoupled(x0_in, x1_in, t_arg, j, seed) ==
  LET c == sample_plan(x0_in, x1_in, j)
      x0 == c.x0
      x1 == c.x1
      t == IF t_arg.given THEN t_arg.v ELSE Rand(seed, Len(x0))
  IN  IF ~t_length_ok(t, x0)
      THEN [error |-> "AssertionError"]
      ELSE LET eps == sample_noise_like(x0, seed + 1)
               xt == sample_xt(x0, x1, t, eps)
               ut == compute_conditional_flow(x0_in, x1_in, t, xt)
           IN  [error |-> "none", t |-> t, xt |-> xt, ut |-> ut,
                x0 |-> x0, x1 |-> x1, eps |-> eps]

sample_location_and_conditional_flow(x0_in, x1_in, t_arg, j, seed) ==
  LET c == sample_plan(x0_in, x1_in, j)
      x0 == c.x0
      x1 == c.x1
      t == IF t_arg.given THEN t_arg.v ELSE Rand(seed, Len(x0))
  IN  IF ~t_length_ok(t, x0)
      THEN [error |-> "AssertionError"]
      ELSE LET eps == sample_noise_like(x0, seed + 1)
               xt == sample_xt(x0, x1, t, eps)
               ut == compute_conditional_flow(x0, x1, t, xt)
           IN  [error |-> "none", t |-> t, xt |-> xt, ut |-> ut,
                x0 |-> x0, x1 |-> x1, eps |-> eps]

(***************************************************************************)
(* FM: time sampling.                                                      *)
(***************************************************************************)
arange_inclusive(start, end, step) ==
  LET n == RCeil(RDiv(RSub(end, start), step)) + 1
  IN  Vec([i \in 1..n |-> RAdd(start, RMul(RInt(i - 1), step))])

\* torch.arange(start, end, step): ceil((end - start) / step) values
arange(start, end, step) ==
  LET n == RCeil(RDiv(RSub(end, start), step))
  IN  Vec([i \in 1..n |-> RAdd(start, RMul(RInt(i - 1), step))])

\* t0 is the draw of np.random.uniform(0, 1 / batch_size)
sample_times(hp, batch_size, t0, seed) ==
  IF hp.antithetic_time_sampling
  THEN arange(t0, RInt(1), Rat(1, batch_size))
  ELSE Rand(seed, batch_size)

(***************************************************************************)
(* FM: the decode bridge and the likelihood.                               *)
(***************************************************************************)
decode_softmax_over_cells(hp, z, size_factor) ==
  IF hp.encoder_type \notin Learnt
  THEN cell_decoder(Vec([b \in Rows(z) |-> scale(z[b], TRUE)]), size_factor)
  ELSE LET d == IF hp.encoder_type = "learnt_autoencoder"
                THEN Vec([b \in Rows(z) |-> x_from_x0(z[b])])
                ELSE z
           p == softmax(d, 0)
       IN  Tensor([b \in Rows(d) |-> [g \in Cols(d) |->
              RMul(p[b][g], RInt(size_factor[b]))]])

decode(hp, z, size_factor) ==
  IF hp.encoder_type \notin Learnt
  THEN cell_decoder(Vec([b \in Rows(z) |-> scale(z[b], TRUE)]), size_factor)
  ELSE LET d == IF hp.encoder_type = "learnt_autoencoder"
                THEN Vec([b \in Rows(z) |-> x_from_x0(z[b])])
                ELSE z
           p == softmax(d, 1)
       IN  Tensor([b \in Rows(d) |-> [g \in Cols(d) |->
              RMul(p[b][g], RInt(size_factor[b]))]])

\* the row of theta whose exp is the dispersion of a cell of category y
theta_row(hp, y) == IF ~hp.covariate_specific_theta THEN 1 ELSE y + 1

\* the parameters of NegativeBinomial(mu, exp(theta)) whose -log_prob(x) is
\* the reconstruction loss
log_probs_x_z0(hp, x, x_0, y, size_factor) ==
  [mu |-> decode(hp, x_0, size_factor),
   theta_rows |-> Vec([b \in Rows(x) |-> theta_row(hp, y[b])]),
   x |-> x]

(***************************************************************************)
(* The data: the cells a loader serves.  X is the count row, X_norm its    *)
(* normalised row, y the category index of the conditioning covariate.     *)
(* The third cell has no counts, the fourth a negative row sum.            *)
(***************************************************************************)
Cells ==
  << [X |-> <<3, 1>>, X_norm |-> <<2, 1>>, y |-> 0],
     [X |-> <<1, 1>>, X_norm |-> <<1, 3>>, y |-> 1],
     [X |-> <<0, 0>>, X_norm |-> <<0, 0>>, y |-> 1],
     [X |-> <<-2, 1>>, X_norm |-> <<-1, 1>>, y |-> 0] >>

in_dim == Len(Cells[1].X)

\* a batch: up to MaxB consecutive cells, as range(len(loader)) serves them
Batches ==
  { [b \in 1..n |-> i + b - 1] :
      n \in 1..MaxB, i \in 1..Len(Cells) } \cap
  UNION { [1..n -> 1..Len(Cells)] : n \in 1..MaxB }

\* the validation loader serves the first two cells
ValidBatches == { s \in Batches : \A b \in DOMAIN s : s[b] <= 2 }

BatchOf(s) == Vec([b \in DOMAIN s |-> Cells[s[b]]])

(***************************************************************************)
(* FM: construction.                                                       *)
(***************************************************************************)
HParams ==
  [ encoder_type : EncoderTypes,
    pretrain_encoder : BOOLEAN,
    pretraining_encoder_epochs : 0..MaxPretrainEpochs,
    antithetic_time_sampling : BOOLEAN,
    covariate_specific_theta : BOOLEAN,
    learning_rate : {LearningRate},
    weight_decay : {WeightDecay} ]

\* torch.nn.Parameter(n_cat, torch.randn(in_dim), requires_grad=True) passes
\* requires_grad twice: the call raises TypeError and no model exists
theta_init(hp) ==
  IF ~hp.covariate_specific_theta
  THEN [error |-> "none", shape |-> <<in_dim>>]
  ELSE [error |-> "TypeError", shape |-> <<>>]

configure_optimizers(hp) ==
  IF hp.encoder_type \in Learnt
  THEN [lr |-> AdamLr, weight_decay |-> AdamWeightDecay]
  ELSE [lr |-> hp.learning_rate, weight_decay |-> hp.weight_decay]

NoRet == [op |-> "none"]

\* a constructed model at the first step of a fit; a fit resumed from a
\* checkpoint starts at a later epoch with freshly constructed modules
InitWith(HP, epochs) ==
  /\ hparams \in HP
  /\ init_error = theta_init(hparams).error
  /\ theta = theta_init(hparams).shape
  /\ current_epoch \in epochs
  /\ requires_grad = [x0_from_x |-> TRUE, x_from_x0 |-> TRUE]
  /\ optimizer = configure_optimizers(hparams)
  /\ logged = {}
  /\ pc = "idle"
  /\ ret = NoRet

Init == InitWith(HParams, 0..MaxEpoch)

(***************************************************************************)
(* FM._step.                                                               *)
(***************************************************************************)
\* the velocity network: a zero field, non-finite where its conditioning is
denoising_model(x_t, t, log_size_factor, y_fea) ==
  [v |-> Tensor([b \in Rows(x_t) |-> [g \in Cols(x_t) |-> RInt(0)]]),
   finite |-> \A b \in Rows(x_t) : IsFinite(log_size_factor[b]),
   log_size_factor |-> log_size_factor,
   y_fea |-> y_fea]

\* torch.nn.MSELoss()(u_t, v_t)
criterion(u_t, v_t) ==
  LET sq == Vec([b \in Rows(u_t) |->
               RSum(Vec([g \in Cols(u_t) |->
                  RMul(RSub(RInt(u_t[b][g]), v_t[b][g]),
                       RSub(RInt(u_t[b][g]), v_t[b][g]))]))])
  IN  RDiv(RSum(sq), RInt(Len(u_t) * Cardinality(Cols(u_t))))

recons_cond_through_boundary(hp, epoch) ==
  epoch <= hp.pretraining_encoder_epochs /\ hp.pretrain_encoder

\* line 157: the reconstruction loss is computed
recons_cond(hp, epoch) ==
  epoch < hp.pretraining_encoder_epochs /\ hp.pretrain_encoder

\* line 163: the encoder is frozen and the optimizer reset
freeze_cond(hp, epoch) ==
  /\ epoch = hp.pretraining_encoder_epochs
  /\ hp.pretrain_encoder
  /\ hp.encoder_type \in Learnt

joint_cond_at_boundary_only(hp, epoch) ==
  (epoch = hp.pretraining_encoder_epochs /\ hp.pretrain_encoder)
    \/ ~hp.pretrain_encoder

\* line 173: the flow-matching branch is taken
joint_cond(hp, epoch) ==
  (epoch >= hp.pretraining_encoder_epochs /\ hp.pretrain_encoder)
    \/ ~hp.pretrain_encoder

\* the coupling call of line 181, self.sample_location_and_conditional_flow(z, x0, t)
couple_latent_first(z, x0, t, j, seed) ==
  sample_location_and_conditional_flow(x0, z, GivenT(t), j, seed)

couple(z, x0, t, j, seed) ==
  sample_location_and_conditional_flow(z, x0, GivenT(t), j, seed)

step(hp, epoch, rg, opt, dataset, batch, t0, seed, j) ==
  LET B == Len(batch)
      x == Vec([b \in 1..B |-> batch[b].X])
      y == Vec([b \in 1..B |-> batch[b].y])
      y_fea == Vec([b \in 1..B |-> feature_embedding(y[b])])
      x_scaled == Vec([b \in 1..B |-> scale(batch[b].X_norm, FALSE)])
      x0 == IF hp.encoder_type \in Learnt
            THEN Vec([b \in 1..B |-> x0_from_x(hp, x_scaled[b])])
            ELSE x_scaled
      size_factor == Vec([b \in 1..B |-> ISum(x[b])])
      log_size_factor == Vec([b \in 1..B |-> Log(size_factor[b])])
      recons == recons_cond(hp, epoch)
      recons_loss_enc == log_probs_x_z0(hp, x, x0, y, size_factor)
      freeze == freeze_cond(hp, epoch)
      rg2 == IF freeze
             THEN [x0_from_x |-> FALSE,
                   x_from_x0 |-> IF hp.encoder_type = "learnt_autoencoder"
                                 THEN FALSE ELSE rg.x_from_x0]
             ELSE rg
      opt2 == IF freeze
              THEN [lr |-> hp.learning_rate, weight_decay |-> hp.weight_decay]
              ELSE opt
      base == [op |-> "_step", dataset |-> dataset, epoch |-> epoch,
               x |-> x, y |-> y, latent |-> x0,
               size_factor |-> size_factor,
               recons_computed |-> recons,
               requires_grad |-> rg2, optimizer |-> opt2]
  IN  IF joint_cond(hp, epoch)
      THEN LET t == sample_times(hp, B, t0, seed)
               z == sample_noise_like(x0, seed)
               f == couple(z, x0, t, j, seed)
           IN  IF f.error # "none"
               THEN base @@
                    [error |-> f.error, loss |-> "none",
                     logged |-> IF recons THEN {dataset \o "/recons_loss_enc"}
                                ELSE {}]
               ELSE LET net == denoising_model(f.xt, f.t, log_size_factor, y_fea)
                        loss == criterion(f.ut, net.v)
                    IN  base @@
                        [error |-> "none", loss |-> "fm",
                         loss_finite |-> net.finite,
                         loss_value |-> loss,
                         z |-> z, t |-> f.t, xt |-> f.xt, ut |-> f.ut,
                         path_x0 |-> f.x0, path_x1 |-> f.x1,
                         cond_log_size_factor |-> net.log_size_factor,
                         cond_y_fea |-> net.y_fea,
                         logged |->
                           (IF recons THEN {dataset \o "/recons_loss_enc"} ELSE {})
                             \cup {"batch_size", dataset \o "/fm_loss",
                                   dataset \o "/loss"}]
      ELSE IF recons
           THEN base @@
                [error |-> "none", loss |-> "recons",
                 nb |-> recons_loss_enc,
                 logged |-> {dataset \o "/recons_loss_enc", dataset \o "/loss"}]
           ELSE base @@
                [error |-> "UnboundLocalError", loss |-> "none", logged |-> {}]

(***************************************************************************)
(* The fit loop: steps of FM driven by the trainer.                        *)
(***************************************************************************)
\* the generator states of a step: the seed of torch's draws and the draw
\* of np.random.uniform(0, 1 / B)
StepRngs(B) == { [seed |-> 1, t0 |-> Rat(0, 1)],
                 [seed |-> 2, t0 |-> Rat(1, 2 * B)] }

DoStep(dataset, s, t0, seed, j) ==
  /\ LET r == step(hparams, current_epoch, requires_grad, optimizer,
                   dataset, BatchOf(s), t0, seed, j)
     IN  /\ ret' = r @@ [logged_before |-> logged]
         /\ requires_grad' = r.requires_grad
         /\ optimizer' = r.optimizer
         /\ logged' = r.logged
  /\ pc' = "returned"
  /\ UNCHANGED <<hparams, init_error, theta, current_epoch>>

training_step ==
  /\ pc = "idle"
  /\ init_error = "none"
  /\ \E s \in Batches : \E rng \in StepRngs(Len(s)) :
       \E j \in Plans(Len(s)) :
         DoStep("train", s, rng.t0, rng.seed, j)

validation_step ==
  /\ pc = "idle"
  /\ init_error = "none"
  /\ \E s \in ValidBatches : \E rng \in StepRngs(Len(s)) :
       \E j \in Plans(Len(s)) :
         DoStep("valid", s, rng.t0, rng.seed, j)

\* the step's return value is consumed by the trainer
on_batch_end ==
  /\ pc = "returned"
  /\ pc' = "idle"
  /\ ret' = NoRet
  /\ UNCHANGED <<hparams, init_error, theta, current_epoch, requires_grad,
                 optimizer, logged>>

\* the trainer advances current_epoch, which never decreases
on_epoch_end ==
  /\ pc = "idle"
  /\ init_error = "none"
  /\ current_epoch < MaxEpoch
  /\ current_epoch' = current_epoch + 1
  /\ UNCHANGED <<hparams, init_error, theta, requires_grad, optimizer,
                 logged, pc, ret>>

Next == training_step \/ validation_step \/ on_batch_end \/ on_epoch_end

Spec == Init /\ [][Next]_vars

(***************************************************************************)
(* Direct calls of the methods of a constructed model.                     *)
(***************************************************************************)
TensorOf(seed, B, D) ==
  Tensor([b \in 1..B |-> [g \in 1..D |-> Randn(seed, b, g)]])
Zeros(B, D) == Tensor([b \in 1..B |-> [g \in 1..D |-> 0]])

GridTimes == { Rat(k, TGrid) : k \in 0..TGrid }

latent_dim(hp) ==
  IF hp.encoder_type \in Learnt
  THEN Len(x0_from_x(hp, Cells[1].X_norm))
  ELSE in_dim

CallHParams ==
  { hp \in HParams : /\ ~hp.pretrain_encoder
                     /\ hp.pretraining_encoder_epochs = 0
                     /\ ~hp.covariate_specific_theta }

InitCalls == InitWith(CallHParams, {0})

Return(r) ==
  /\ ret' = r
  /\ pc' = "returned"
  /\ UNCHANGED <<hparams, init_error, theta, current_epoch, requires_grad,
                 optimizer, logged>>

call_sample_times ==
  /\ pc = "idle"
  /\ init_error = "none"
  /\ \E B \in 1..MaxTimesB : \E k \in 0..(T0Den - 1) : \E seed \in Seeds :
       LET t0 == Rat(k, B * T0Den)
       IN  Return([op |-> "_sample_times", batch_size |-> B, t0 |-> t0,
                   times |-> sample_times(hparams, B, t0, seed)])

call_sample_xt ==
  /\ pc = "idle"
  /\ init_error = "none"
  /\ \E B \in 1..MaxB : \E s0 \in Seeds : \E s1 \in Seeds :
       \E t \in [1..B -> GridTimes] :
         \E eps \in {Zeros(B, in_dim)}
                      \cup {TensorOf(s, B, in_dim) : s \in Seeds} :
           LET x0 == TensorOf(s0, B, in_dim)
               x1 == TensorOf(s1 + NSeeds, B, in_dim)
           IN  Return([op |-> "sample_xt", x0 |-> x0, x1 |-> x1, t |-> t,
                       eps |-> eps,
                       xt |-> sample_xt(x0, x1, t, eps),
                       mu_t |-> compute_mu_t(x0, x1, t)])

call_sample_location_and_conditional_flow ==
  /\ pc = "idle"
  /\ init_error = "none"
  /\ \E B \in 1..MaxB : \E s0 \in Seeds : \E seed \in Seeds :
       \E j \in Plans(B) :
         \E t_arg \in {NoneT} \cup
              { GivenT(Vec([i \in 1..L |->
                              Rat((k + i) % (TGrid + 1), TGrid)])) :
                  L \in 0..(MaxB + 1), k \in 0..TGrid } :
           LET x0 == TensorOf(s0, B, in_dim)
               x1 == TensorOf(s0 + NSeeds, B, in_dim)
           IN  Return([op |-> "sample_location_and_conditional_flow",
                       x0 |-> x0, x1 |-> x1, t_arg |-> t_arg, j |-> j,
                       out |-> sample_location_and_conditional_flow(
                                 x0, x1, t_arg, j, seed)])

call_decode ==
  /\ pc = "idle"
  /\ init_error = "none"
  /\ \E B \in 1..MaxB : \E seed \in Seeds :
       \E size_factor \in [1..B -> 1..MaxSizeFactor] :
         LET z == TensorOf(seed, B, latent_dim(hparams))
         IN  Return([op |-> "_decode", z |-> z, size_factor |-> size_factor,
                     out |-> decode(hparams, z, size_factor)])

(***************************************************************************)
(* FM: sampling.                                                           *)
(***************************************************************************)
\* size_factor_statistics["mean"][covariate] and ["sd"][covariate]: the
\* training statistics of the log size factor, one entry per category
SizeFactorMean == <<2, 4>>
SizeFactorSd == <<1, 2>>

\* torch.randint(0, n_cat, (n,))
Randint(seed, n) == Vec([b \in 1..n |-> (seed + b) % n_cat])

\* the values a standard normal draw takes
NormalDraws == { Randn(seed, b, 1) : seed \in 0..4, b \in {0} }

\* Normal(loc, scale).sample()
normal_sample(loc, sd, seed) ==
  Vec([b \in 1..Len(loc) |-> loc[b] + sd[b] * Randn(seed, b, 1)])

\* torch.exp of a log size factor
Exp(l) == Pow2(l)

size_factor_dist_of_first_cell(covariate_indices) ==
  [loc |-> Vec([b \in 1..Len(covariate_indices) |->
                  SizeFactorMean[covariate_indices[1] + 1]]),
   scale |-> Vec([b \in 1..Len(covariate_indices) |->
                    SizeFactorSd[covariate_indices[1] + 1]])]

\* lines 245-247: the statistics of each cell's category
size_factor_dist(covariate_indices) ==
  [loc |-> Vec([b \in 1..Len(covariate_indices) |->
                  SizeFactorMean[covariate_indices[b] + 1]]),
   scale |-> Vec([b \in 1..Len(covariate_indices) |->
                    SizeFactorSd[covariate_indices[b] + 1]])]

\* NeuralODE(torch_wrapper(denoising_model, log_size_factor, y)).trajectory(z,
\* t_span)[-1]: the field of the network integrated from t = 0 to t = 1
trajectory_end(z, log_size_factor, y) ==
  LET net == denoising_model(
               Tensor([b \in Rows(z) |-> [g \in Cols(z) |-> RInt(z[b][g])]]),
               Vec([b \in Rows(z) |-> RInt(0)]),
               Vec([b \in 1..Len(log_size_factor) |-> Fin(log_size_factor[b])]),
               y)
  IN  [x0 |-> Tensor([b \in Rows(z) |-> [g \in Cols(z) |->
                 z[b][g] + (net.v[b][g][1] \div net.v[b][g][2])]]),
       log_size_factor |-> net.log_size_factor,
       y |-> net.y_fea]

\* covariate_indices and log_size_factor are optional: given, or None
sample(hp, batch_size, covariate_indices, log_size_factor, seed) ==
  LET z == TensorOf(seed, batch_size, latent_dim(hp))
      idx == IF ~covariate_indices.given
             THEN Randint(seed, batch_size)
             ELSE covariate_indices.v
      lsf == IF ~log_size_factor.given
             THEN LET d == size_factor_dist(idx)
                  IN  normal_sample(d.loc, d.scale, seed + 1)
             ELSE log_size_factor.v
      y == Vec([b \in 1..Len(idx) |-> feature_embedding(idx[b])])
      ode == trajectory_end(z, lsf, y)
      size_factor == Vec([b \in 1..Len(lsf) |-> Exp(lsf[b])])
      x == decode(hp, ode.x0, size_factor)
      theta_rows == Vec([b \in 1..Len(idx) |-> theta_row(hp, idx[b])])
  IN  [covariate_indices |-> idx, log_size_factor |-> lsf, y |-> y, z |-> z,
       cond_log_size_factor |-> ode.log_size_factor, cond_y |-> ode.y,
       size_factor |-> size_factor, mu |-> x, theta_rows |-> theta_rows,
       rows |-> Vec([b \in 1..batch_size |->
                  [mu |-> x[b], theta_row |-> theta_rows[b],
                   draw |-> <<seed + 2, b>>]])]

\* s[a:b] of a tensor: the entries a .. b-1 that exist
Slice(s, a, b) == SubSeq(s, a + 1, IF b < Len(s) THEN b ELSE Len(s))

chunk_overlapping(arg, i, batch_size) ==
  IF arg.given THEN GivenT(Slice(arg.v, i, i + batch_size)) ELSE NoneT

\* lines 281-282: the argument of repetition i
chunk(arg, i, batch_size) ==
  IF arg.given
  THEN GivenT(Slice(arg.v, i * batch_size, (i + 1) * batch_size))
  ELSE NoneT

\* torch.cat(tensors, dim=0)
RECURSIVE Cat(_)
Cat(ts) == IF Len(ts) = 0 THEN <<>> ELSE ts[1] \o Cat(SubSeq(ts, 2, Len(ts)))

\* each call of sample advances the generator
batched_sample(hp, batch_size, repetitions, covariate_indices, log_size_factor, seed) ==
  LET calls ==
        [i \in 1..repetitions |->
           LET ci == chunk(covariate_indices, i - 1, batch_size)
               lc == chunk(log_size_factor, i - 1, batch_size)
           IN  [covariate_indices |-> ci, log_size_factor |-> lc,
                out |-> sample(hp, batch_size, ci, lc, seed + 3 * (i - 1))]]
      total_samples == [i \in 1..repetitions |-> calls[i].out.rows]
  IN  IF Len(total_samples) = 0
      THEN [error |-> "RuntimeError", calls |-> calls]
      ELSE [error |-> "none", calls |-> calls, rows |-> Cat(total_samples)]

\* the optional tensors a caller supplies, of n entries
IndexArgs(n) ==
  {NoneT} \cup { GivenT(Vec([k \in 1..n |-> (k + o) % n_cat])) : o \in 0..1 }
LogSizeFactorArgs(n) ==
  {NoneT} \cup { GivenT(Vec([k \in 1..n |-> (k * o) % 3])) : o \in 1..2 }

call_sample ==
  /\ pc = "idle"
  /\ init_error = "none"
  /\ \E B \in 1..MaxB : \E seed \in Seeds :
       \E ci \in IndexArgs(B) : \E lc \in LogSizeFactorArgs(B) :
         Return([op |-> "sample", batch_size |-> B,
                 covariate_indices |-> ci, log_size_factor |-> lc,
                 seed |-> seed,
                 out |-> sample(hparams, B, ci, lc, seed)])

call_batched_sample ==
  /\ pc = "idle"
  /\ init_error = "none"
  /\ \E B \in 1..MaxB : \E R \in 0..MaxRepetitions : \E seed \in Seeds :
       \E extra \in 0..1 :
         \E ci \in IndexArgs(R * B + extra) :
           \E lc \in LogSizeFactorArgs(R * B + extra) :
             Return([op |-> "batched_sample", batch_size |-> B,
                     repetitions |-> R,
                     covariate_indices |-> ci, log_size_factor |-> lc,
                     seed |-> seed,
                     out |-> batched_sample(hparams, B, R, ci, lc, seed)])

NextCalls ==
  \/ call_sample_times
  \/ call_sample_xt
  \/ call_sample_location_and_conditional_flow
  \/ call_decode
  \/ call_sample
  \/ call_batched_sample

SpecCalls == InitCalls /\ [][NextCalls]_vars

(***************************************************************************)
(* Properties.                                                             *)
(***************************************************************************)
StepReturned == pc = "returned" /\ ret.op = "_step"
FMStep == StepReturned /\ ret.error = "none" /\ ret.loss = "fm"
Returned(op) == pc = "returned" /\ ret.op = op

JointLoggedIn(keys) == \E d \in {"train", "valid"} : (d \o "/fm_loss") \in keys
ReconsLoggedIn(keys) ==
  \E d \in {"train", "valid"} : (d \o "/recons_loss_enc") \in keys

\* C1: with pretrain_encoder enabled and current_epoch never decreasing, once
\* the most recent step has taken the flow-matching branch, the next step
\* takes it too: no step returns to the reconstruction-loss branch.
C1_JointIsTerminal ==
  [][(hparams.pretrain_encoder /\ JointLoggedIn(logged))
       => /\ JointLoggedIn(logged')
          /\ ~ReconsLoggedIn(logged')
          /\ pc' = "returned" => ret'.loss = "fm"]_vars

\* a flow-matching step that follows a flow-matching step, past the threshold
C1_Witness ==
  /\ FMStep
  /\ hparams.pretrain_encoder
  /\ JointLoggedIn(ret.logged_before)
  /\ ret.epoch > hparams.pretraining_encoder_epochs

\* C2: with pretrain_encoder enabled and a learnt encoder, every step at or
\* beyond pretraining_encoder_epochs computes the flow-matching loss with the
\* encoder (and, for learnt_autoencoder, the decoder) frozen, whatever epoch
\* the first executed step has.
C2_EncoderFrozenInJoint ==
  (/\ FMStep
   /\ hparams.pretrain_encoder
   /\ hparams.encoder_type \in Learnt
   /\ ret.epoch >= hparams.pretraining_encoder_epochs)
  => /\ ~ret.requires_grad.x0_from_x
     /\ hparams.encoder_type = "learnt_autoencoder"
          => ~ret.requires_grad.x_from_x0

\* C3: every step returns exactly one loss, always defined: the reconstruction
\* loss when pretrain_encoder is enabled and current_epoch is below
\* pretraining_encoder_epochs, the flow-matching loss otherwise; a step that
\* returns the flow-matching loss neither computes nor logs the
\* reconstruction loss.
C3_OneLossPerStep ==
  StepReturned =>
    /\ ret.error = "none"
    /\ ret.loss \in {"recons", "fm"}
    /\ ret.loss = "recons"
         <=> (/\ hparams.pretrain_encoder
              /\ ret.epoch < hparams.pretraining_encoder_epochs)
    /\ ret.loss = "recons" => ret.recons_computed
    /\ ret.loss = "fm"
         => ~ret.recons_computed /\ ~ReconsLoggedIn(ret.logged)

\* the first joint step of a run that pretrained
C3_Witness ==
  /\ FMStep
  /\ hparams.pretrain_encoder
  /\ hparams.pretraining_encoder_epochs > 0
  /\ ret.epoch = hparams.pretraining_encoder_epochs
  /\ ReconsLoggedIn(ret.logged_before)

RowsOf(x) == { x[b] : b \in Rows(x) }
AsRat(x) == [b \in Rows(x) |-> [g \in Cols(x) |-> RInt(x[b][g])]]
ConstT(x, k) == [b \in Rows(x) |-> RInt(k)]

\* C4, as claimed: in a joint-phase step the pair handed to the probability
\* path has the encoder's latent as x0 and the noise as x1, so that ut is
\* noise minus latent.
C4_LatentIsX0 ==
  FMStep =>
    /\ RowsOf(ret.path_x0) \subseteq RowsOf(ret.latent)
    /\ RowsOf(ret.path_x1) \subseteq RowsOf(ret.z)

\* C4, amended: the pair handed to the probability path has the noise as x0,
\* the t = 0 endpoint of the mean, and the encoder's latent as x1, the t = 1
\* endpoint, so that ut = x1 - x0 is latent minus noise.
C4_NoiseIsX0 ==
  FMStep =>
    /\ RowsOf(ret.path_x0) \subseteq RowsOf(ret.z)
    /\ RowsOf(ret.path_x1) \subseteq RowsOf(ret.latent)
    /\ Len(ret.path_x0) = Len(ret.x) /\ Len(ret.path_x1) = Len(ret.x)
    /\ RowsOf(compute_mu_t(ret.path_x0, ret.path_x1, ConstT(ret.z, 0)))
         \subseteq RowsOf(AsRat(ret.z))
    /\ RowsOf(compute_mu_t(ret.path_x0, ret.path_x1, ConstT(ret.z, 1)))
         \subseteq RowsOf(AsRat(ret.latent))
    /\ \A b \in Rows(ret.ut) : \A g \in Cols(ret.ut) :
         ret.ut[b][g] = ret.path_x1[b][g] - ret.path_x0[b][g]

\* a joint step of a full batch whose latents were reordered by the plan and
\* differ from the noise
C4_Witness ==
  /\ FMStep
  /\ Len(ret.x) = MaxB
  /\ ret.path_x1 # ret.latent
  /\ RowsOf(ret.z) \cap RowsOf(ret.latent) = {}

C6_PerCovariateThetaConstructed ==
  hparams.covariate_specific_theta
    => init_error = "none" /\ theta = <<n_cat, in_dim>>

C8_TimeLengthChecked ==
  (Returned("sample_location_and_conditional_flow") /\ ret.t_arg.given) =>
    IF Len(ret.t_arg.v) # Len(ret.x0)
    THEN ret.out = [error |-> "AssertionError"]
    ELSE /\ ret.out.error = "none"
         /\ Len(ret.out.t) = Len(ret.x0)
         /\ Len(ret.out.xt) = Len(ret.x0)
         /\ Len(ret.out.ut) = Len(ret.x0)

C8_Witness ==
  /\ Returned("sample_location_and_conditional_flow")
  /\ ret.t_arg.given
  /\ Len(ret.t_arg.v) = Len(ret.x0) + 1
  /\ ret.out.error = "AssertionError"

\* C9: a step on a batch holding a cell whose size factor is zero, negative
\* or undefined fails with an error instead of going on with a non-finite
\* log size factor.
C9_BadSizeFactorFails ==
  (StepReturned /\ \E b \in Rows(ret.size_factor) : ret.size_factor[b] <= 0)
    => ret.error # "none"

IsZeroTensor(x) == \A b \in Rows(x) : \A g \in Cols(x) : x[b][g] = 0

\* C10: sample_xt(x0, x1, t, eps) = t*x1 + (1-t)*x0 + sigma*eps with sigma the
\* configured constant; with all-zero eps it is compute_mu_t(x0, x1, t), and
\* then x0 at t = 0 and x1 at t = 1.
C10_SampleXt ==
  Returned("sample_xt") =>
    /\ \A b \in Rows(ret.xt) : \A g \in Cols(ret.xt) :
         LET tn == ret.t[b][1]
             td == ret.t[b][2]
             xt == ret.xt[b][g]
         IN  /\ xt[2] > 0
             /\ xt[1] * td * SigmaDen
                  = xt[2] * (SigmaDen * (tn * ret.x1[b][g]
                                          + (td - tn) * ret.x0[b][g])
                             + td * SigmaNum * ret.eps[b][g])
    /\ IsZeroTensor(ret.eps) =>
         /\ ret.xt = ret.mu_t
         /\ \A b \in Rows(ret.xt) :
              /\ ret.t[b] = RInt(0) => ret.xt[b] = AsRat(ret.x0)[b]
              /\ ret.t[b] = RInt(1) => ret.xt[b] = AsRat(ret.x1)[b]

C10_Witness ==
  /\ Returned("sample_xt")
  /\ IsZeroTensor(ret.eps)
  /\ Len(ret.x0) = MaxB
  /\ ret.t[1] = RInt(0)
  /\ ret.t[2] = RInt(1)
  /\ ret.x0 # ret.x1

\* C11: the ut returned by sample_location_and_conditional_flow is x1 - x0 of
\* the coupled pair, the pair xt of the same call is built from, and it is
\* the same for every time tensor and every noise draw.
C11_TargetVelocity ==
  (Returned("sample_location_and_conditional_flow")
     /\ ret.out.error = "none") =>
    /\ \A b \in Rows(ret.out.ut) : \A g \in Cols(ret.out.ut) :
         ret.out.ut[b][g] = ret.out.x1[b][g] - ret.out.x0[b][g]
    /\ ret.out.xt = sample_xt(ret.out.x0, ret.out.x1, ret.out.t, ret.out.eps)
    /\ \A seed \in Seeds : \A k \in 0..TGrid :
         LET o == sample_location_and_conditional_flow(
                    ret.x0, ret.x1,
                    GivenT([b \in Rows(ret.x0) |-> Rat(k, TGrid)]),
                    ret.j, seed)
         IN  o.x0 = ret.out.x0 /\ o.x1 = ret.out.x1 => o.ut = ret.out.ut
    /\ \A seed \in Seeds :
         sample_location_and_conditional_flow(
           ret.x0, ret.x1, NoneT, ret.j, seed).ut = ret.out.ut

\* a call whose plan reorders a full batch, with a time strictly inside (0, 1)
C11_Witness ==
  /\ Returned("sample_location_and_conditional_flow")
  /\ ret.out.error = "none"
  /\ Len(ret.x0) = MaxB
  /\ ret.out.x1 # ret.x1
  /\ IsZeroTensor(ret.out.eps) = FALSE
  /\ \E b \in Rows(ret.out.t) :
       ret.out.t[b][1] > 0 /\ ret.out.t[b][1] < ret.out.t[b][2]

\* C12: in a joint-phase step, for every row b, the covariate embedding and
\* the log size factor given to the denoising network at row b are those of
\* a cell whose latent is the data endpoint of row b's coupled pair.
C12_ConditioningAligned ==
  FMStep =>
    \A b \in Rows(ret.path_x1) :
      \E c \in Rows(ret.latent) :
        /\ ret.path_x1[b] = ret.latent[c]
        /\ ret.cond_y_fea[b] = feature_embedding(ret.y[c])
        /\ ret.cond_log_size_factor[b] = Log(ret.size_factor[c])

\* C13: whenever a step computes the flow-matching loss, the optimizer's
\* learning rate and weight decay are the configured learning_rate and
\* weight_decay.
C13_OptimizerAsConfigured ==
  FMStep =>
    /\ ret.optimizer.lr = hparams.learning_rate
    /\ ret.optimizer.weight_decay = hparams.weight_decay

\* the entries lo+1 .. lo+n of a supplied tensor
Entries(v, lo, n) == [b \in 1..n |-> v[lo + b]]

C15_SampleResolution ==
  Returned("sample") =>
    LET o == ret.out
        B == ret.batch_size
    IN  /\ ret.covariate_indices.given =>
             o.covariate_indices = ret.covariate_indices.v
        /\ ret.log_size_factor.given =>
             o.log_size_factor = ret.log_size_factor.v
        /\ Len(o.covariate_indices) = B /\ Len(o.log_size_factor) = B
        /\ \A b \in 1..B :
             /\ o.covariate_indices[b] \in 0..(n_cat - 1)
             /\ ~ret.log_size_factor.given =>
                  \E r \in NormalDraws :
                    o.log_size_factor[b]
                      = SizeFactorMean[o.covariate_indices[b] + 1]
                        + SizeFactorSd[o.covariate_indices[b] + 1] * r
             /\ o.y[b] = feature_embedding(o.covariate_indices[b])
             /\ o.cond_y[b] = o.y[b]
             /\ o.cond_log_size_factor[b] = Fin(o.log_size_factor[b])
             /\ o.size_factor[b] = Exp(o.log_size_factor[b])
             /\ RSum(o.mu[b]) = RInt(o.size_factor[b])
             /\ o.rows[b].mu = o.mu[b]
             /\ o.theta_rows[b] = 1
        /\ LET p == sample([hparams EXCEPT !.covariate_specific_theta = TRUE],
                           B, ret.covariate_indices, ret.log_size_factor,
                           ret.seed)
           IN  /\ p.covariate_indices = o.covariate_indices
               /\ \A b \in 1..B :
                    p.theta_rows[b] = o.covariate_indices[b] + 1

\* both omitted, a full batch whose cells resolve to different categories
C15_Witness ==
  /\ Returned("sample")
  /\ ~ret.covariate_indices.given
  /\ ~ret.log_size_factor.given
  /\ ret.batch_size = MaxB
  /\ ret.out.covariate_indices[1] # ret.out.covariate_indices[2]
  /\ ret.out.log_size_factor[1] # ret.out.log_size_factor[2]

====
